---- MODULE Spec2Model ----
(***************************************************************************)
(* netifd vlandev.c: the 802.1q / 802.1ad VLAN device.  The model covers   *)
(* the qos mapping parser, the settings/reload path and the set_up /       *)
(* set_down lifecycle together with the parent device_user binding.        *)
(***************************************************************************)
EXTENDS Integers, Sequences, FiniteSets, TLC

(***************************************************************************)
(* Bounds of the model.                                                    *)
(***************************************************************************)
\* capacity of cfg->ingress_qos_mappings / egress_qos_mappings (ARRAY_SIZE)
N == 2
\* number of reloads recorded in the reload history
MaxReloads == 3

(***************************************************************************)
(* Blob attributes.  Every attribute has the same shape so that values of  *)
(* different blobmsg types can be compared: t is the blobmsg type, n the   *)
(* integer payload, s the string payload (a sequence of characters, or a   *)
(* one element sequence holding an interface name), l the array payload.   *)
(***************************************************************************)
NoAttr == [t |-> "none", n |-> 0, s |-> <<>>, l |-> <<>>]
StrA(s) == [t |-> "string", n |-> 0, s |-> s, l |-> <<>>]
IntA(n) == [t |-> "int32", n |-> n, s |-> <<>>, l |-> <<>>]
ArrA(l) == [t |-> "array", n |-> 0, s |-> <<>>, l |-> l]

\* items of a mapping array: ok is the result of blobmsg_check_attr(cur, false)
StrI(s) == [t |-> "string", n |-> 0, s |-> s, ok |-> TRUE]
BadStrI(s) == [t |-> "string", n |-> 0, s |-> s, ok |-> FALSE]
IntI(n) == [t |-> "int32", n |-> n, s |-> <<>>, ok |-> TRUE]

\* enum { VLANDEV_ATTR_IFNAME, ... } and struct blobmsg_policy vlandev_attrs[]
vlandev_attrs ==
    [ifname |-> "string", vid |-> "int32",
     ingress_qos_mapping |-> "array", egress_qos_mapping |-> "array"]

\* device_attr_list.params: the generic interface schema (one representative
\* attribute of it)
device_attrs == [mtu |-> "int32"]

\* blobmsg_parse(policy, n, tb, blob_data(attr), blob_len(attr)): tb[i] is the
\* attribute named policy[i].name when its type is policy[i].type, else NULL
blobmsg_parse(policy, attr) ==
    [f \in DOMAIN policy |-> IF attr[f].t = policy[f] THEN attr[f] ELSE NoAttr]

\* uci_blob_diff(tb1, tb2, config, NULL): some parameter of config differs
uci_blob_diff(tb1, tb2) == \E f \in DOMAIN tb1 : tb1[f] # tb2[f]

(***************************************************************************)
(* sscanf(str, "%u:%u", &from, &to)                                        *)
(***************************************************************************)
Digits == {"0", "1", "2", "3", "4", "5", "6", "7", "8", "9"}
DigitVal(c) ==
    CASE c = "0" -> 0 [] c = "1" -> 1 [] c = "2" -> 2 [] c = "3" -> 3
      [] c = "4" -> 4 [] c = "5" -> 5 [] c = "6" -> 6 [] c = "7" -> 7
      [] c = "8" -> 8 [] c = "9" -> 9

RECURSIVE SkipSpace(_, _)
\* the position of the first non-blank character of s at or after p
SkipSpace(s, p) ==
    IF p <= Len(s) /\ s[p] = " " THEN SkipSpace(s, p + 1) ELSE p

RECURSIVE ScanDigits(_, _, _)
\* consumes the digits of s from p on: <<value, next position>>.  The strings
\* of the model have at most three digits, so the value fits 32 bits.
ScanDigits(s, p, acc) ==
    IF p <= Len(s) /\ s[p] \in Digits
    THEN ScanDigits(s, p + 1, acc * 10 + DigitVal(s[p]))
    ELSE <<acc, p>>

\* the end of a %u conversion that starts (after blanks) at q, whose digits
\* start at r and were scanned as d: at least one digit is required.  A
\* negated value wraps to 32 bits: the stored uint32 is held as the signed
\* integer with the same bit pattern.
ScanValue(s, p, q, r, d) ==
    IF d[2] = r
    THEN [ok |-> FALSE, val |-> 0, next |-> p]
    ELSE [ok |-> TRUE,
          val |-> IF q <= Len(s) /\ s[q] = "-" THEN 0 - d[1] ELSE d[1],
          next |-> d[2]]

\* the sign of a %u conversion is optional
ScanSign(s, p, q, r) == ScanValue(s, p, q, r, ScanDigits(s, r, 0))

\* one %u conversion at position p: blanks are skipped first
ScanBlank(s, p, q) ==
    ScanSign(s, p, q, IF q <= Len(s) /\ s[q] \in {"-", "+"} THEN q + 1 ELSE q)

ScanU32(s, p) == ScanBlank(s, p, SkipSpace(s, p))

\* sscanf after its first conversion a and its second conversion b
SscanfSecond(entry, a, b) ==
    IF ~b.ok
    THEN [rc |-> 1, entry |-> [entry EXCEPT !.from = a.val]]
    ELSE [rc |-> 2, entry |-> [from |-> a.val, to |-> b.val]]

\* sscanf after its first conversion a: the ':' of the format must follow
SscanfFirst(s, entry, a) ==
    IF ~a.ok THEN [rc |-> 0, entry |-> entry]
    ELSE IF ~(a.next <= Len(s) /\ s[a.next] = ":")
    THEN [rc |-> 1, entry |-> [entry EXCEPT !.from = a.val]]
    ELSE SscanfSecond(entry, a, ScanU32(s, a.next + 1))

\* sscanf(s, "%u:%u", &entry.from, &entry.to): rc is the number of
\* conversions stored; entry is the destination after the call (a conversion
\* that fails leaves its destination untouched)
Sscanf(s, entry) == SscanfFirst(s, entry, ScanU32(s, 1))

(***************************************************************************)
(* vlandev_qos_mappings_list_apply                                         *)
(***************************************************************************)
\* the state of the loop: the cursor cur (index of the next item), i, the
\* destination table, the table indexes written so far, and the return
\* value once the function has returned
QosStart(tab, list) ==
    [list |-> list, cur |-> 1, i |-> 0, tab |-> tab,
     done |-> FALSE, ret |-> 0, wrote |-> {}]

\* the loop body after sscanf returned r
QosScanned(st, r) ==
    [st EXCEPT !.tab[st.i + 1] = r.entry,
               !.wrote = IF r.rc > 0 THEN @ \cup {st.i} ELSE @,
               !.done = (r.rc # 2),
               !.ret = 0,
               !.i = IF r.rc = 2 THEN @ + 1 ELSE @,
               !.cur = IF r.rc = 2 THEN @ + 1 ELSE @]

\* the capacity check is off by one: i + 1 == len
QosStep_off_by_one(st, len) ==
    IF st.cur > Len(st.list)
    THEN [st EXCEPT !.done = TRUE, !.ret = st.i]
    ELSE IF st.i + 1 = len
    THEN [st EXCEPT !.done = TRUE, !.ret = 0]
    ELSE IF st.list[st.cur].t # "string"
    THEN [st EXCEPT !.done = TRUE, !.ret = 0]
    ELSE IF ~st.list[st.cur].ok
    THEN [st EXCEPT !.done = TRUE, !.ret = 0]
    ELSE QosScanned(st, Sscanf(st.list[st.cur].s, st.tab[st.i + 1]))

\* the capacity check lets one item more through: i > len
QosStep_check_late(st, len) ==
    IF st.cur > Len(st.list)
    THEN [st EXCEPT !.done = TRUE, !.ret = st.i]
    ELSE IF st.i > len
    THEN [st EXCEPT !.done = TRUE, !.ret = 0]
    ELSE IF st.list[st.cur].t # "string"
    THEN [st EXCEPT !.done = TRUE, !.ret = 0]
    ELSE IF ~st.list[st.cur].ok
    THEN [st EXCEPT !.done = TRUE, !.ret = 0]
    ELSE QosScanned(st, Sscanf(st.list[st.cur].s,
                             IF st.i + 1 \in DOMAIN st.tab THEN st.tab[st.i + 1]
                             ELSE [from |-> 0, to |-> 0]))

\* one iteration of blobmsg_for_each_attr, or the return after the loop
QosStep(st, len) ==
    IF st.cur > Len(st.list)
    THEN [st EXCEPT !.done = TRUE, !.ret = st.i]
    ELSE IF st.i = len
    THEN [st EXCEPT !.done = TRUE, !.ret = 0]
    ELSE IF st.list[st.cur].t # "string"
    THEN [st EXCEPT !.done = TRUE, !.ret = 0]
    ELSE IF ~st.list[st.cur].ok
    THEN [st EXCEPT !.done = TRUE, !.ret = 0]
    ELSE QosScanned(st, Sscanf(st.list[st.cur].s, st.tab[st.i + 1]))

RECURSIVE QosRun(_, _)
QosRun(st, len) == IF st.done THEN st ELSE QosRun(QosStep(st, len), len)

\* the call as a whole: the returned count and the table it leaves behind
vlandev_qos_mappings_list_apply(qos_mapping, len, list) ==
    QosRun(QosStart(qos_mapping, list), len)

(***************************************************************************)
(* The devices.                                                            *)
(***************************************************************************)
\* the VLAN devices, and the device types that create them
Devs == {"vlan1", "vlan2"}
DevTypes == {"8021q", "8021ad"}
\* the devices a VLAN device can name as its parent; NoDev is NULL
Parents == {"eth0", "eth1"}
NoDev == "NULL"
\* a user of a parent that is no VLAN device of the model
Other == "other"

ZeroEntry == [from |-> 0, to |-> 0]
ZeroTab == [k \in 1..N |-> ZeroEntry]

\* calloc(1, sizeof(struct vlandev_config))
ZeroConfig ==
    [proto |-> "0", vid |-> 0,
     ingress_qos_mappings |-> ZeroTab, ingress_qos_mappings_len |-> 0,
     egress_qos_mappings |-> ZeroTab, egress_qos_mappings_len |-> 0]

\* struct vlandev_device after calloc: dev (present, type, config_pending,
\* the generic settings), parent (dev, claimed), config_data, ifname, config.
\* config_data is <<>> for NULL and <<blob>> otherwise.
ZeroDevice ==
    [present |-> FALSE, type |-> "0", config_pending |-> FALSE, mtu |-> 0,
     parent |-> NoDev, claimed |-> FALSE,
     config_data |-> <<>>, ifname |-> NoAttr, config |-> ZeroConfig]

VARIABLES
    alive,      \* alive[d]: the vlandev_device d is allocated
    mv,         \* mv[d]: the struct vlandev_device
    active,     \* active[d]: the device is Up (its set_state(true) succeeded)
    holder,     \* holder[p]: the user holding the exclusive claim on parent p
    link,       \* link[d]: the kernel VLAN link of d, <<>> when there is none
    lastOp,     \* the last handler that ran: its calls in order and its result
    hist,       \* the reloads of the device so far: <<attr, result>>
    pst         \* the parser loop of a mapping list being parsed

vars == <<alive, mv, active, holder, link, lastOp, hist, pst>>

(***************************************************************************)
(* The collaborators vlandev.c calls.  A handler runs on a world w: the    *)
(* devices, the claims, the links, and the calls made so far in order.     *)
(***************************************************************************)
World == [mv |-> mv, holder |-> holder, link |-> link, calls |-> <<>>]
Call(f, r) == [f |-> f, r |-> r]
Ret(w) == w.calls[Len(w.calls)].r

\* device_claim(&mvdev->parent): the exclusive claim of the parent.  It fails
\* (-1) when no parent is bound or another user holds the claim; otherwise
\* its result is r, the result of bringing the parent up.
device_claim(w, d, r) ==
    LET p == w.mv[d].parent
        ret == IF p = NoDev \/ w.holder[p] # NoDev THEN 0 - 1 ELSE r
    IN  IF ret < 0
        THEN [w EXCEPT !.calls = Append(@, Call("device_claim", ret))]
        ELSE [w EXCEPT !.calls = Append(@, Call("device_claim", ret)),
                       !.holder[p] = d,
                       !.mv[d].claimed = TRUE]

\* device_release(&mvdev->parent)
device_release(w, d) ==
    [w EXCEPT !.calls = Append(@, Call("device_release", 0)),
              !.holder = [p \in Parents |-> IF @[p] = d THEN NoDev ELSE @[p]],
              !.mv[d].claimed = FALSE]

\* system_vlandev_add(dev, parent.dev, &config): creates the link unless it
\* fails with r < 0
system_vlandev_add(w, d, r) ==
    [w EXCEPT !.calls = Append(@, Call("system_vlandev_add", r)),
              !.link[d] = IF r < 0 THEN @
                          ELSE <<[base |-> w.mv[d].parent,
                                  cfg |-> w.mv[d].config, up |-> FALSE]>>]

\* system_vlandev_del(dev)
system_vlandev_del(w, d) ==
    [w EXCEPT !.calls = Append(@, Call("system_vlandev_del", 0)),
              !.link[d] = <<>>]

\* mvdev->set_state(dev, up): the generic set_state saved by vlandev_create
set_state(w, d, up, r) ==
    [w EXCEPT !.calls = Append(@, Call(IF up THEN "set_state_up"
                                             ELSE "set_state_down", r)),
              !.link[d] = IF r = 0 /\ @ # <<>>
                          THEN <<[@[1] EXCEPT !.up = up]>> ELSE @]

\* device_set_present(&mvdev->dev, state)
device_set_present(w, d, state) ==
    [w EXCEPT !.calls = Append(@, Call("device_set_present", 0)),
              !.mv[d].present = state]

\* device_get(name, true): the device of that name, created when missing
device_get(name) == name[1]

\* device_add_user(&mvdev->parent, basedev): the binding now observes basedev
device_add_user(w, d, basedev) ==
    [w EXCEPT !.calls = Append(@, Call("device_add_user", 0)),
              !.mv[d].parent = basedev]

\* device_remove_user(&mvdev->parent)
device_remove_user(w, d) ==
    [w EXCEPT !.calls = Append(@, Call("device_remove_user", 0)),
              !.mv[d].parent = NoDev]

\* device_init_settings(dev, tb_dev)
device_init_settings(w, d, tb_dev) ==
    [w EXCEPT !.mv[d].mtu = IF tb_dev.mtu = NoAttr THEN 0 ELSE tb_dev.mtu.n]

(***************************************************************************)
(* vlandev.c                                                               *)
(***************************************************************************)
\* the events other than ADD are all handled as REMOVE
vlandev_base_cb_no_default(w, d, ev) ==
    CASE ev = "DEV_EVENT_ADD" -> device_set_present(w, d, TRUE)
      [] OTHER -> device_set_present(w, d, FALSE)

\* vlandev_base_cb(dev, ev)
vlandev_base_cb(w, d, ev) ==
    CASE ev = "DEV_EVENT_ADD" -> device_set_present(w, d, TRUE)
      [] ev = "DEV_EVENT_REMOVE" -> device_set_present(w, d, FALSE)
      [] OTHER -> w

\* vlandev_set_down that propagates the result of the generic set_state
vlandev_set_down_propagates(w, d, r) ==
    [w |-> device_release(
               system_vlandev_del(set_state(w, d, FALSE, r), d), d),
     ret |-> r]

\* vlandev_set_down(mvdev): r is what the generic set_state returns
vlandev_set_down(w, d, r) ==
    [w |-> device_release(
               system_vlandev_del(set_state(w, d, FALSE, r), d), d),
     ret |-> 0]

\* the failure of set_state jumps to release: instead of delete:
SetUpState_skips_delete(w3, d) ==
    IF Ret(w3) # 0
    THEN [w |-> device_release(w3, d), ret |-> Ret(w3)]
    ELSE [w |-> w3, ret |-> 0]

\* vlandev_set_up from "ret = mvdev->set_state(&mvdev->dev, true)" on
SetUpState(w3, d) ==
    IF Ret(w3) # 0
    THEN [w |-> device_release(system_vlandev_del(w3, d), d),
          ret |-> Ret(w3)]
    ELSE [w |-> w3, ret |-> 0]

\* the failure of system_vlandev_add returns without releasing the parent
SetUpAdd_no_release(w2, d, ur) ==
    IF Ret(w2) < 0
    THEN [w |-> w2, ret |-> Ret(w2)]
    ELSE SetUpState(set_state(w2, d, TRUE, ur), d)

\* the failure of system_vlandev_add jumps to delete: instead of release:
SetUpAdd_goes_to_delete(w2, d, ur) ==
    IF Ret(w2) < 0
    THEN [w |-> device_release(system_vlandev_del(w2, d), d),
          ret |-> Ret(w2)]
    ELSE SetUpState(set_state(w2, d, TRUE, ur), d)

\* vlandev_set_up from "ret = system_vlandev_add(...)" on
SetUpAdd(w2, d, ur) ==
    IF Ret(w2) < 0
    THEN [w |-> device_release(w2, d), ret |-> Ret(w2)]
    ELSE SetUpState(set_state(w2, d, TRUE, ur), d)

\* the failure of device_claim jumps to release: instead of returning
SetUpClaim_goes_to_release(w1, d, ar, ur) ==
    IF Ret(w1) < 0
    THEN [w |-> device_release(w1, d), ret |-> Ret(w1)]
    ELSE SetUpAdd(system_vlandev_add(w1, d, ar), d, ur)

\* the result of device_claim is not checked
SetUpClaim_unchecked(w1, d, ar, ur) ==
    SetUpAdd(system_vlandev_add(w1, d, ar), d, ur)

\* vlandev_set_up from "ret = device_claim(&mvdev->parent)" on
SetUpClaim(w1, d, ar, ur) ==
    IF Ret(w1) < 0
    THEN [w |-> w1, ret |-> Ret(w1)]
    ELSE SetUpAdd(system_vlandev_add(w1, d, ar), d, ur)

\* vlandev_set_up(mvdev): cr, ar and ur are what the bring-up of the parent,
\* system_vlandev_add and the generic set_state return when they are reached
vlandev_set_up(w, d, cr, ar, ur) ==
    SetUpClaim(device_claim(w, d, cr), d, ar, ur)

\* vlandev_set_state(dev, up)
vlandev_set_state(w, d, up, cr, ar, ur) ==
    IF up THEN vlandev_set_up(w, d, cr, ar, ur)
    ELSE vlandev_set_down(w, d, ur)

\* free(mvdev->config_data); free(mvdev): the memory of the device is gone.
\* Whether the parent still lists the binding among its users is not a
\* matter of that memory: only device_remove_user unlinks it.
FreeDevice(w1, d) ==
    [w1 EXCEPT !.calls = @ \o <<Call("free_config_data", 0),
                                Call("free_mvdev", 0)>>,
               !.mv[d] = [ZeroDevice EXCEPT !.parent = w1.mv[d].parent]]

\* the device is freed while the parent still lists it as a user
vlandev_free_no_remove_user(w, d) == FreeDevice(w, d)

\* vlandev_free(dev)
vlandev_free(w, d) == FreeDevice(device_remove_user(w, d), d)

\* what blobmsg_add_string(b, "parent", mvdev->parent.dev->ifname) can give
\* in vlandev_dump_info: the name of the bound parent, or, when parent.dev
\* is NULL, whatever reading through a null pointer does
vlandev_dump_info(w, d) ==
    IF w.mv[d].parent # NoDev THEN {w.mv[d].parent}
    ELSE {"SIGSEGV", "garbage"}

\* vlandev_config_init(dev)
vlandev_config_init(w, d) ==
    device_add_user(w, d, IF w.mv[d].ifname # NoAttr
                          THEN device_get(w.mv[d].ifname.s) ELSE NoDev)

\* the uint16_t cast of vlandev_apply_settings
U16 == 65536

\* the tag is not reset: a configuration without tag keeps the old one
ApplyParsed_keeps_vid(w, d, tb, ing, egr) ==
    [w EXCEPT !.mv[d].config =
        [proto |-> IF w.mv[d].type = "8021q"
                   THEN "VLAN_PROTO_8021Q" ELSE "VLAN_PROTO_8021AD",
         vid |-> IF tb.vid # NoAttr THEN tb.vid.n % U16 ELSE @.vid,
         ingress_qos_mappings |->
             IF tb.ingress_qos_mapping # NoAttr
             THEN ing.tab ELSE @.ingress_qos_mappings,
         ingress_qos_mappings_len |->
             IF tb.ingress_qos_mapping # NoAttr THEN ing.ret ELSE 0,
         egress_qos_mappings |->
             IF tb.egress_qos_mapping # NoAttr
             THEN egr.tab ELSE @.egress_qos_mappings,
         egress_qos_mappings_len |->
             IF tb.egress_qos_mapping # NoAttr THEN egr.ret ELSE 0]]

\* the protocol is chosen by comparing with the other device type
ApplyParsed_proto_swapped(w, d, tb, ing, egr) ==
    [w EXCEPT !.mv[d].config =
        [proto |-> IF w.mv[d].type = "8021ad"
                   THEN "VLAN_PROTO_8021Q" ELSE "VLAN_PROTO_8021AD",
         vid |-> IF tb.vid # NoAttr THEN tb.vid.n % U16 ELSE 1,
         ingress_qos_mappings |->
             IF tb.ingress_qos_mapping # NoAttr
             THEN ing.tab ELSE @.ingress_qos_mappings,
         ingress_qos_mappings_len |->
             IF tb.ingress_qos_mapping # NoAttr THEN ing.ret ELSE 0,
         egress_qos_mappings |->
             IF tb.egress_qos_mapping # NoAttr
             THEN egr.tab ELSE @.egress_qos_mappings,
         egress_qos_mappings_len |->
             IF tb.egress_qos_mapping # NoAttr THEN egr.ret ELSE 0]]

\* the egress list is not looked at once the ingress list failed to parse
ApplyParsed_stops_on_failure(w, d, tb, ing, egr) ==
    [w EXCEPT !.mv[d].config =
        [proto |-> IF w.mv[d].type = "8021q"
                   THEN "VLAN_PROTO_8021Q" ELSE "VLAN_PROTO_8021AD",
         vid |-> IF tb.vid # NoAttr THEN tb.vid.n % U16 ELSE 1,
         ingress_qos_mappings |->
             IF tb.ingress_qos_mapping # NoAttr
             THEN ing.tab ELSE @.ingress_qos_mappings,
         ingress_qos_mappings_len |->
             IF tb.ingress_qos_mapping # NoAttr THEN ing.ret ELSE 0,
         egress_qos_mappings |->
             IF /\ tb.egress_qos_mapping # NoAttr
                /\ ~(tb.ingress_qos_mapping # NoAttr /\ ing.ret = 0)
             THEN egr.tab ELSE @.egress_qos_mappings,
         egress_qos_mappings_len |->
             IF /\ tb.egress_qos_mapping # NoAttr
                /\ ~(tb.ingress_qos_mapping # NoAttr /\ ing.ret = 0)
             THEN egr.ret ELSE 0]]

\* vlandev_apply_settings after the two calls of
\* vlandev_qos_mappings_list_apply returned ing and egr
ApplyParsed(w, d, tb, ing, egr) ==
    [w EXCEPT !.mv[d].config =
        [proto |-> IF w.mv[d].type = "8021q"
                   THEN "VLAN_PROTO_8021Q" ELSE "VLAN_PROTO_8021AD",
         vid |-> IF tb.vid # NoAttr THEN tb.vid.n % U16 ELSE 1,
         ingress_qos_mappings |->
             IF tb.ingress_qos_mapping # NoAttr
             THEN ing.tab ELSE @.ingress_qos_mappings,
         ingress_qos_mappings_len |->
             IF tb.ingress_qos_mapping # NoAttr THEN ing.ret ELSE 0,
         egress_qos_mappings |->
             IF tb.egress_qos_mapping # NoAttr
             THEN egr.tab ELSE @.egress_qos_mappings,
         egress_qos_mappings_len |->
             IF tb.egress_qos_mapping # NoAttr THEN egr.ret ELSE 0]]

\* vlandev_apply_settings(mvdev, tb)
vlandev_apply_settings(w, d, tb) ==
    ApplyParsed(w, d, tb,
        vlandev_qos_mappings_list_apply(
            w.mv[d].config.ingress_qos_mappings, N,
            tb.ingress_qos_mapping.l),
        vlandev_qos_mappings_list_apply(
            w.mv[d].config.egress_qos_mappings, N,
            tb.egress_qos_mapping.l))

\* a missing config_data is diffed as an empty configuration
ReloadDiff_null_as_empty(w, w3, d, attr, tb_dev, tb_mv) ==
    [w |-> [w3 EXCEPT !.mv[d].config_data = <<attr>>],
     ret |-> IF \/ uci_blob_diff(tb_dev,
                     [f \in DOMAIN device_attrs |-> NoAttr])
                \/ uci_blob_diff(tb_mv,
                     [f \in DOMAIN vlandev_attrs |-> NoAttr])
             THEN "DEV_CONFIG_RESTART" ELSE "DEV_CONFIG_APPLIED"]

\* only the generic schema is diffed
ReloadDiff_generic_only(w, w3, d, attr, tb_dev, tb_mv) ==
    IF w.mv[d].config_data # <<>>
    THEN [w |-> [vlandev_config_init(w3, d)
                    EXCEPT !.mv[d].config_data = <<attr>>],
          ret |-> IF uci_blob_diff(tb_dev,
                        blobmsg_parse(device_attrs, w.mv[d].config_data[1]))
                  THEN "DEV_CONFIG_RESTART" ELSE "DEV_CONFIG_APPLIED"]
    ELSE [w |-> [w3 EXCEPT !.mv[d].config_data = <<attr>>],
          ret |-> "DEV_CONFIG_APPLIED"]

\* a restart is returned at once, before the rebinding and before
\* config_data is replaced
ReloadDiff_returns_on_restart(w, w3, d, attr, tb_dev, tb_mv) ==
    IF w.mv[d].config_data # <<>>
    THEN IF \/ uci_blob_diff(tb_dev,
                  blobmsg_parse(device_attrs, w.mv[d].config_data[1]))
            \/ uci_blob_diff(tb_mv,
                  blobmsg_parse(vlandev_attrs, w.mv[d].config_data[1]))
         THEN [w |-> w3, ret |-> "DEV_CONFIG_RESTART"]
         ELSE [w |-> [vlandev_config_init(w3, d)
                         EXCEPT !.mv[d].config_data = <<attr>>],
               ret |-> "DEV_CONFIG_APPLIED"]
    ELSE [w |-> [w3 EXCEPT !.mv[d].config_data = <<attr>>],
          ret |-> "DEV_CONFIG_APPLIED"]

\* config_data is replaced only when the configuration was applied
ReloadDiff_keeps_on_restart(w, w3, d, attr, tb_dev, tb_mv) ==
    IF w.mv[d].config_data # <<>>
    THEN IF \/ uci_blob_diff(tb_dev,
                  blobmsg_parse(device_attrs, w.mv[d].config_data[1]))
            \/ uci_blob_diff(tb_mv,
                  blobmsg_parse(vlandev_attrs, w.mv[d].config_data[1]))
         THEN [w |-> vlandev_config_init(w3, d),
               ret |-> "DEV_CONFIG_RESTART"]
         ELSE [w |-> [vlandev_config_init(w3, d)
                         EXCEPT !.mv[d].config_data = <<attr>>],
               ret |-> "DEV_CONFIG_APPLIED"]
    ELSE [w |-> [w3 EXCEPT !.mv[d].config_data = <<attr>>],
          ret |-> "DEV_CONFIG_APPLIED"]

\* vlandev_reload from "if (mvdev->config_data)" on: w is the world before the
\* call, w3 the world after mvdev->ifname was set
ReloadDiff(w, w3, d, attr, tb_dev, tb_mv) ==
    IF w.mv[d].config_data # <<>>
    THEN [w |-> [vlandev_config_init(w3, d)
                    EXCEPT !.mv[d].config_data = <<attr>>],
          ret |-> IF \/ uci_blob_diff(tb_dev,
                          blobmsg_parse(device_attrs, w.mv[d].config_data[1]))
                     \/ uci_blob_diff(tb_mv,
                          blobmsg_parse(vlandev_attrs, w.mv[d].config_data[1]))
                  THEN "DEV_CONFIG_RESTART" ELSE "DEV_CONFIG_APPLIED"]
    ELSE [w |-> [w3 EXCEPT !.mv[d].config_data = <<attr>>],
          ret |-> "DEV_CONFIG_APPLIED"]

\* mvdev->ifname is not updated before the rebinding
ReloadParsed_keeps_ifname(w, d, attr, tb_dev, tb_mv) ==
    ReloadDiff(w,
        vlandev_apply_settings(device_init_settings(w, d, tb_dev), d, tb_mv),
        d, attr, tb_dev, tb_mv)

\* vlandev_reload after the two calls of blobmsg_parse on the new attr
ReloadParsed(w, d, attr, tb_dev, tb_mv) ==
    ReloadDiff(w,
        [vlandev_apply_settings(device_init_settings(w, d, tb_dev), d, tb_mv)
            EXCEPT !.mv[d].ifname = tb_mv.ifname],
        d, attr, tb_dev, tb_mv)

\* vlandev_reload(dev, attr)
vlandev_reload(w, d, attr) ==
    ReloadParsed(w, d, attr, blobmsg_parse(device_attrs, attr),
                 blobmsg_parse(vlandev_attrs, attr))

\* vlandev_create(name, devtype, attr), after a successful calloc and
\* device_init
vlandev_create(w, d, devtype, attr) ==
    vlandev_reload([w EXCEPT !.mv[d] = [ZeroDevice EXCEPT
                                           !.type = devtype,
                                           !.config_pending = TRUE]],
                   d, attr)

(***************************************************************************)
(* Inputs.                                                                 *)
(***************************************************************************)
Blob(ifname, vid, ing, egr, mtu, extra) ==
    [ifname |-> ifname, vid |-> vid, ingress_qos_mapping |-> ing,
     egress_qos_mapping |-> egr, mtu |-> mtu, extra |-> extra]

Name(p) == StrA(<<p>>)
M12 == StrI(<<"1", ":", "2">>)
M21 == StrI(<<"2", ":", "1">>)
M703 == StrI(<<"7", ":", "0", "3">>)
MBad == StrI(<<"x">>)

\* the configurations of the lifecycle specification: the parent name, the
\* tag, the mapping lists, a generic attribute and an attribute of no schema,
\* present, absent, changed or of the wrong type
LifeAttrs ==
    { Blob(NoAttr, NoAttr, NoAttr, NoAttr, NoAttr, NoAttr),
      Blob(Name("eth1"), IntA(10), NoAttr, NoAttr, NoAttr, NoAttr),
      Blob(Name("eth0"), IntA(10), ArrA(<<M12, MBad>>), NoAttr, NoAttr, NoAttr),
      Blob(Name("eth0"), IntA(10), ArrA(<<M12>>), ArrA(<<M21, M703>>),
           NoAttr, NoAttr),
      Blob(Name("eth0"), IntA(10), NoAttr, NoAttr, IntA(1500), NoAttr),
      Blob(Name("eth0"), IntA(10), NoAttr, NoAttr, NoAttr, IntA(1)) }
    \cup
    { Blob(Name("eth0"), v, NoAttr, NoAttr, NoAttr, NoAttr) :
        v \in {IntA(10), IntA(20), IntA(65546),
               StrA(<<"10">>), StrA(<<"20">>)} }

\* the configurations of the two-device specification
TwoAttrs ==
    { Blob(Name(p), IntA(10), NoAttr, NoAttr, NoAttr, NoAttr) :
        p \in Parents }

\* the configurations of the reload-history specification
HistAttrs ==
    { Blob(Name("eth0"), v, g, NoAttr, NoAttr, NoAttr) :
        v \in {NoAttr, IntA(10), IntA(20)},
        g \in {NoAttr, ArrA(<<M12>>)} }

\* the mapping lists of the settings specification: absent, well-formed,
\* with a malformed item, and longer than the table
DirLists ==
    {NoAttr, ArrA(<<M12>>), ArrA(<<M21, M703>>), ArrA(<<M12, MBad>>),
     ArrA([k \in 1..(N + 1) |-> M21])}

\* the configurations of the settings specification
DirAttrs ==
    { Blob(Name("eth0"), v, g, e, NoAttr, NoAttr) :
        v \in {NoAttr, IntA(10)}, g \in DirLists, e \in DirLists }

\* the configurations of the specification of two devices with their own
\* reload histories
PairAttrs ==
    { Blob(Name("eth0"), v, g, NoAttr, NoAttr, NoAttr) :
        v \in {NoAttr, IntA(10)},
        g \in {NoAttr, ArrA(<<M12>>), ArrA(<<M21, M703>>)} }

\* what the parent's bring-up, system_vlandev_add and the generic set_state
\* can return
ClaimRets == {0, -5}
AddRets == {0, -2}
UpRets == {0, -3, 3}
DownRets == {0, -4}

Events == {"DEV_EVENT_ADD", "DEV_EVENT_REMOVE", "DEV_EVENT_UP",
           "DEV_EVENT_LINK_DOWN"}

(***************************************************************************)
(* The state machine.                                                      *)
(***************************************************************************)
\* the record of a handler: the device (or parent) it ran on, the calls it
\* made in order, the configuration it was given, and what it returned (ret
\* of set_state, change of reload)
Op(op, d, w, ret, change, attr) ==
    [op |-> op, dev |-> d, calls |-> w.calls, ret |-> ret, change |-> change,
     attr |-> attr]

PstIdle == [QosStart(ZeroTab, <<>>) EXCEPT !.done = TRUE]

Init ==
    /\ alive = [d \in Devs |-> FALSE]
    /\ mv = [d \in Devs |-> ZeroDevice]
    /\ active = [d \in Devs |-> FALSE]
    /\ holder = [p \in Parents |-> NoDev]
    /\ link = [d \in Devs |-> <<>>]
    /\ lastOp = Op("init", NoDev, World, 0, "none", <<>>)
    /\ hist = <<>>
    /\ pst = PstIdle

\* the world after a handler that returned r = [w, ret]
Commit(op, d, r, change, attr) ==
    /\ mv' = r.w.mv
    /\ holder' = r.w.holder
    /\ link' = r.w.link
    /\ lastOp' = Op(op, d, r.w, r.ret, change, attr)

\* the device type's create: vlandev_create
CreateDone(d, r, attr) ==
    /\ Commit("create", d, [w |-> r.w, ret |-> 0], r.ret, <<attr>>)
    /\ alive' = [alive EXCEPT ![d] = TRUE]
    /\ UNCHANGED <<active, pst>>

Create(d, devtype, attr) ==
    /\ ~alive[d]
    /\ CreateDone(d, vlandev_create(World, d, devtype, attr), attr)

\* the device type's reload: vlandev_reload
ReloadDone(d, r, attr) ==
    /\ Commit("reload", d, [w |-> r.w, ret |-> 0], r.ret, <<attr>>)
    /\ UNCHANGED <<alive, active, pst>>

Reload(d, attr) ==
    /\ alive[d]
    /\ ReloadDone(d, vlandev_reload(World, d, attr), attr)

\* the device type's config_init, called once for a device whose
\* configuration is pending: vlandev_config_init
ConfigInitDone(d, w) ==
    /\ Commit("config_init", d,
              [w |-> [w EXCEPT !.mv[d].config_pending = FALSE], ret |-> 0],
              "none", <<>>)
    /\ UNCHANGED <<alive, active, pst>>

ConfigInit(d) ==
    /\ alive[d]
    /\ mv[d].config_pending
    /\ ConfigInitDone(d, vlandev_config_init(World, d))

\* dev->set_state(dev, true) on a device that is Down: vlandev_set_state.
\* The device is Up when it returned 0.
ActivateDone(d, r) ==
    /\ Commit("set_up", d, r, "none", <<>>)
    /\ active' = [active EXCEPT ![d] = (r.ret = 0)]
    /\ UNCHANGED <<alive, pst>>

Activate(d, cr, ar, ur) ==
    /\ alive[d]
    /\ ~active[d]
    /\ ActivateDone(d, vlandev_set_state(World, d, TRUE, cr, ar, ur))

\* dev->set_state(dev, false) on a device that is Up: vlandev_set_state
DeactivateDone(d, r) ==
    /\ Commit("set_down", d, r, "none", <<>>)
    /\ active' = [active EXCEPT ![d] = FALSE]
    /\ UNCHANGED <<alive, pst>>

Deactivate(d, dr) ==
    /\ alive[d]
    /\ active[d]
    /\ DeactivateDone(d, vlandev_set_state(World, d, FALSE, 0, 0, dr))

RECURSIVE Broadcast(_, _, _)
\* the event ev of a parent, delivered to each of its users ds in turn
Broadcast(w, ds, ev) ==
    IF ds = {} THEN w
    ELSE LET d == CHOOSE x \in ds : TRUE
         IN  Broadcast(vlandev_base_cb(w, d, ev), ds \ {d}, ev)

\* the bindings the parent p lists as its users
Users(p) == {d \in Devs : mv[d].parent = p}

\* an event of parent p: parent.cb of every binding among its users
ParentEvent(p, ev) ==
    /\ Users(p) # {}
    /\ Commit(ev, p, [w |-> Broadcast(World, Users(p), ev), ret |-> 0],
              "none", <<>>)
    /\ UNCHANGED <<alive, active, pst>>

\* the device type's free, on a device that is Down: vlandev_free.  The
\* record of the handler notes whether a parent was bound when it ran.
Free(d) ==
    /\ alive[d]
    /\ ~active[d]
    /\ Commit("free", d, [w |-> vlandev_free(World, d), ret |-> 0],
              IF mv[d].parent = NoDev THEN "unbound" ELSE "bound", <<>>)
    /\ alive' = [alive EXCEPT ![d] = FALSE]
    /\ UNCHANGED <<active, pst>>

\* the device type's dump_info, on a device that exists: vlandev_dump_info.
\* The record of the handler notes what was read as the parent's name.
DumpInfo(d, out) ==
    /\ alive[d]
    /\ out \in vlandev_dump_info(World, d)
    /\ lastOp' = Op("dump_info", d, World, 0, out, <<>>)
    /\ UNCHANGED <<alive, mv, active, holder, link, pst>>

\* another user claims or releases parent p
OtherClaim(p) ==
    /\ holder[p] = NoDev
    /\ holder' = [holder EXCEPT ![p] = Other]
    /\ lastOp' = Op("other_claim", p, World, 0, "none", <<>>)
    /\ UNCHANGED <<alive, mv, active, link, pst>>

OtherRelease(p) ==
    /\ holder[p] = Other
    /\ holder' = [holder EXCEPT ![p] = NoDev]
    /\ lastOp' = Op("other_release", p, World, 0, "none", <<>>)
    /\ UNCHANGED <<alive, mv, active, link, pst>>

\* the lifecycle of one VLAN device beside another user of its parents
LifeDevs == {"vlan1"}

Next ==
    \/ \E d \in LifeDevs, t \in DevTypes, a \in LifeAttrs :
          Create(d, t, a) /\ UNCHANGED hist
    \/ \E d \in LifeDevs, a \in LifeAttrs : Reload(d, a) /\ UNCHANGED hist
    \/ \E d \in LifeDevs : ConfigInit(d) /\ UNCHANGED hist
    \/ \E d \in LifeDevs, cr \in ClaimRets, ar \in AddRets, ur \in UpRets :
          Activate(d, cr, ar, ur) /\ UNCHANGED hist
    \/ \E d \in LifeDevs, dr \in DownRets : Deactivate(d, dr) /\ UNCHANGED hist
    \/ \E p \in Parents, ev \in Events : ParentEvent(p, ev) /\ UNCHANGED hist
    \/ \E d \in LifeDevs : Free(d) /\ UNCHANGED hist
    \/ \E d \in LifeDevs, out \in Parents \cup {"SIGSEGV", "garbage"} :
          DumpInfo(d, out) /\ UNCHANGED hist
    \/ \E p \in Parents : OtherClaim(p) /\ UNCHANGED hist
    \/ \E p \in Parents : OtherRelease(p) /\ UNCHANGED hist

Spec == Init /\ [][Next]_vars

\* two VLAN devices and the parents they name
NextTwo ==
    \/ \E d \in Devs, t \in DevTypes, a \in TwoAttrs :
          Create(d, t, a) /\ UNCHANGED hist
    \/ \E d \in Devs : ConfigInit(d) /\ UNCHANGED hist
    \/ \E d \in Devs, cr \in ClaimRets, ar \in AddRets, ur \in UpRets :
          Activate(d, cr, ar, ur) /\ UNCHANGED hist
    \/ \E d \in Devs, dr \in DownRets : Deactivate(d, dr) /\ UNCHANGED hist
    \/ \E p \in Parents, ev \in Events : ParentEvent(p, ev) /\ UNCHANGED hist
    \/ \E d \in Devs : Free(d) /\ UNCHANGED hist

SpecTwo == Init /\ [][NextTwo]_vars

\* one VLAN device, the history of its reloads and its activations
NextReload ==
    \/ \E t \in DevTypes, a \in HistAttrs :
          /\ Create("vlan1", t, a)
          /\ hist' = <<[attr |-> a, ret |-> lastOp'.change]>>
    \/ \E a \in HistAttrs :
          /\ Len(hist) < MaxReloads
          /\ Reload("vlan1", a)
          /\ hist' = Append(hist, [attr |-> a, ret |-> lastOp'.change])
    \/ \E cr \in ClaimRets, ar \in AddRets, ur \in UpRets :
          Activate("vlan1", cr, ar, ur) /\ UNCHANGED hist
    \/ \E dr \in DownRets : Deactivate("vlan1", dr) /\ UNCHANGED hist
    \/ Free("vlan1") /\ hist' = <<>>

SpecReload == Init /\ [][NextReload]_vars

\* the settings of one VLAN device over its creations and reloads
NextApply ==
    \/ \E t \in DevTypes, a \in DirAttrs :
          Create("vlan1", t, a) /\ UNCHANGED hist
    \/ \E a \in DirAttrs : Reload("vlan1", a) /\ UNCHANGED hist
    \/ Free("vlan1") /\ UNCHANGED hist

SpecApply == Init /\ [][NextApply]_vars

\* two VLAN devices, each created and reloaded on its own
NextPair ==
    \/ \E d \in Devs, t \in DevTypes, a \in PairAttrs :
          Create(d, t, a) /\ UNCHANGED hist
    \/ \E d \in Devs, a \in PairAttrs : Reload(d, a) /\ UNCHANGED hist
    \/ \E d \in Devs : Free(d) /\ UNCHANGED hist

SpecPair == Init /\ [][NextPair]_vars

(***************************************************************************)
(* The parser on its own: a mapping list and a destination table, and the  *)
(* loop of vlandev_qos_mappings_list_apply one iteration at a time.        *)
(***************************************************************************)
Items ==
    { M12, M21, M703, MBad,
      StrI(<<"1", ":">>), StrI(<<"1", ":", "2", "x">>),
      StrI(<<" ", "1", ":", "2">>), StrI(<<"2", "1">>),
      BadStrI(<<"1", ":", "2">>), IntI(5) }

Lists == UNION { [1..n -> Items] : n \in 0..(N + 1) }

\* a table a previous parse has left behind
StaleTab == [k \in 1..N |-> [from |-> 9, to |-> 9]]

InitParse ==
    /\ alive = [d \in Devs |-> FALSE]
    /\ mv = [d \in Devs |-> ZeroDevice]
    /\ active = [d \in Devs |-> FALSE]
    /\ holder = [p \in Parents |-> NoDev]
    /\ link = [d \in Devs |-> <<>>]
    /\ lastOp = Op("init", NoDev, World, 0, "none", <<>>)
    /\ hist = <<>>
    /\ pst \in { QosStart(tab, list) : tab \in {ZeroTab, StaleTab},
                                      list \in Lists }

ParseStep ==
    /\ ~pst.done
    /\ pst' = QosStep(pst, N)
    /\ UNCHANGED <<alive, mv, active, holder, link, lastOp, hist>>

NextParse == ParseStep

SpecParse == InitParse /\ [][NextParse]_vars

(***************************************************************************)
(* Properties.                                                             *)
(***************************************************************************)
\* the names of the calls a handler made, in order
CallNames(op) == [k \in 1..Len(op.calls) |-> op.calls[k].f]

\* the parent claim of d is held exactly when d is Up, in the binding and on
\* the side of the parents, and so is its link
ClaimAndLinkIffUp(d) ==
    /\ mv[d].claimed <=> active[d]
    /\ (\E p \in Parents : holder[p] = d) <=> active[d]
    /\ (link[d] # <<>>) <=> active[d]

\* C1: in every reachable state the parent binding is claimed if and only if
\* the device is Up and the link exists if and only if the device is Up,
\* whatever the external steps returned; a reload of a device that is Up
\* changes neither the claim nor the link.
C1_ClaimedAndLinkedIffUp ==
    /\ [](\A d \in Devs : ClaimAndLinkIffUp(d))
    /\ [][(lastOp'.op = "reload" /\ active[lastOp'.dev])
             => /\ holder' = holder
                /\ link' = link
                /\ mv'[lastOp'.dev].claimed = mv[lastOp'.dev].claimed
                /\ active' = active]_vars

\* a reload has just rebound a device that is Up to another parent
C1_Witness ==
    /\ lastOp.op = "reload"
    /\ active["vlan1"]
    /\ mv["vlan1"].claimed
    /\ mv["vlan1"].parent # link["vlan1"][1].base

\* the last handler was a set_up on which device_claim succeeded and
\* system_vlandev_add failed
AddFailed ==
    /\ lastOp.op = "set_up"
    /\ Len(lastOp.calls) >= 2
    /\ lastOp.calls[1].f = "device_claim" /\ lastOp.calls[1].r >= 0
    /\ lastOp.calls[2].f = "system_vlandev_add" /\ lastOp.calls[2].r < 0

\* C2: when activate claims the parent and create_link fails, activate
\* returns create_link's error, the claim is released (another user can
\* claim the parent at once), neither the generic bring-up nor destroy_link
\* is called, and the device stays Down.
C2_AddFailureReleasesClaim ==
    AddFailed =>
        /\ lastOp.ret = lastOp.calls[2].r
        /\ CallNames(lastOp) =
               <<"device_claim", "system_vlandev_add", "device_release">>
        /\ ~mv[lastOp.dev].claimed
        /\ holder[mv[lastOp.dev].parent] = NoDev
        /\ ENABLED OtherClaim(mv[lastOp.dev].parent)
        /\ link[lastOp.dev] = <<>>
        /\ ~active[lastOp.dev]

C2_Witness == AddFailed /\ lastOp.ret = -2

\* the last handler was a set_up on which device_claim and
\* system_vlandev_add succeeded and the generic set_state failed
UpFailed ==
    /\ lastOp.op = "set_up"
    /\ Len(lastOp.calls) >= 3
    /\ lastOp.calls[1].r >= 0
    /\ lastOp.calls[2].r >= 0
    /\ lastOp.calls[3].f = "set_state_up" /\ lastOp.calls[3].r # 0

\* C3: when activate claims the parent and creates the link and the generic
\* bring-up fails, destroy_link is called once and then the claim is released
\* once, the bring-up error is returned, no link remains and the device stays
\* Down.
C3_UpFailureRollsBack ==
    UpFailed =>
        /\ CallNames(lastOp) =
               <<"device_claim", "system_vlandev_add", "set_state_up",
                 "system_vlandev_del", "device_release">>
        /\ lastOp.ret = lastOp.calls[3].r
        /\ link[lastOp.dev] = <<>>
        /\ ~mv[lastOp.dev].claimed
        /\ holder[mv[lastOp.dev].parent] = NoDev
        /\ ~active[lastOp.dev]

C3_Witness == UpFailed /\ lastOp.ret = 3

\* C4: when the parent claim fails during activate, activate returns the
\* claim's error unchanged and does nothing else: no other call is made, the
\* devices, the claims and the links are as before, and the device stays Down.
C4_ClaimFailureDoesNothing ==
    [][(lastOp'.op = "set_up" /\ lastOp'.calls[1].r < 0)
          => /\ lastOp'.calls = <<Call("device_claim", lastOp'.ret)>>
             /\ mv' = mv /\ holder' = holder /\ link' = link
             /\ active' = active
             /\ ~active'[lastOp'.dev]]_vars

\* an activate failed because another user holds the parent
C4_Witness ==
    /\ lastOp.op = "set_up"
    /\ lastOp.ret = -1
    /\ mv[lastOp.dev].parent # NoDev
    /\ holder[mv[lastOp.dev].parent] = Other

\* C5: deactivate of an Up device reports success and leaves the device Down
\* whatever the generic bring-down returns; it calls bring-down, destroy_link
\* and release once each, in that order.
C5_DeactivateAlwaysSucceeds ==
    lastOp.op = "set_down" =>
        /\ lastOp.ret = 0
        /\ CallNames(lastOp) =
               <<"set_state_down", "system_vlandev_del", "device_release">>
        /\ ~active[lastOp.dev]
        /\ link[lastOp.dev] = <<>>
        /\ ~mv[lastOp.dev].claimed

\* a deactivate whose bring-down failed
C5_Witness == lastOp.op = "set_down" /\ lastOp.calls[1].r = -4

\* the other VLAN device
Peer(d) == IF d = "vlan1" THEN "vlan2" ELSE "vlan1"

\* the last handler was a set_up of a device whose parent the other VLAN
\* device, which is Up, holds
PeerHoldsParent ==
    /\ lastOp.op = "set_up"
    /\ active[Peer(lastOp.dev)]
    /\ mv[Peer(lastOp.dev)].parent = mv[lastOp.dev].parent

\* C6: two VLAN devices bound to the same parent are never both Up, and
\* activating one while the other is Up fails with the claim's error (-1),
\* creates no link and leaves the other device's claim in place.
C6_OneClaimPerParent ==
    /\ (active["vlan1"] /\ active["vlan2"])
          => mv["vlan1"].parent # mv["vlan2"].parent
    /\ PeerHoldsParent =>
          /\ lastOp.ret = -1
          /\ lastOp.calls = <<Call("device_claim", -1)>>
          /\ ~active[lastOp.dev]
          /\ link[lastOp.dev] = <<>>
          /\ holder[mv[lastOp.dev].parent] = Peer(lastOp.dev)
          /\ mv[Peer(lastOp.dev)].claimed
          /\ link[Peer(lastOp.dev)] # <<>>

C6_Witness == PeerHoldsParent /\ lastOp.ret = -1

\* C7: a reload of a device that has no persisted configuration (the one
\* vlandev_create issues) returns DEV_CONFIG_APPLIED for every configuration.
C7_FirstReloadApplied ==
    [][(lastOp'.op \in {"create", "reload"}
          /\ mv[lastOp'.dev].config_data = <<>>)
          => lastOp'.change = "DEV_CONFIG_APPLIED"]_vars

\* a device was created with a parent name, a tag and both mapping lists
C7_Witness ==
    /\ lastOp.op = "create"
    /\ lastOp.change = "DEV_CONFIG_APPLIED"
    /\ lastOp.attr[1].ifname # NoAttr
    /\ lastOp.attr[1].vid # NoAttr
    /\ lastOp.attr[1].ingress_qos_mapping # NoAttr
    /\ lastOp.attr[1].egress_qos_mapping # NoAttr

\* the fields of both schemas, decoded from the configuration a
SchemaFields(a) ==
    <<blobmsg_parse(device_attrs, a), blobmsg_parse(vlandev_attrs, a)>>

\* a and b differ in the tag and in nothing else
TagAlone(a, b) ==
    /\ blobmsg_parse(vlandev_attrs, a).vid # blobmsg_parse(vlandev_attrs, b).vid
    /\ [a EXCEPT !.vid = NoAttr] = [b EXCEPT !.vid = NoAttr]

\* C8: a reload of a device with a persisted configuration returns
\* DEV_CONFIG_RESTART exactly when the new configuration differs from the
\* persisted one in a field of the generic schema or of the VLAN schema; a
\* change of the tag alone restarts, identical bytes apply in place.
C8_RestartIffSchemaFieldDiffers ==
    [][(lastOp'.op = "reload")
          => /\ (lastOp'.change = "DEV_CONFIG_RESTART")
                   <=> (SchemaFields(lastOp'.attr[1])
                          # SchemaFields(mv[lastOp'.dev].config_data[1]))
             /\ lastOp'.change \in {"DEV_CONFIG_RESTART", "DEV_CONFIG_APPLIED"}
             /\ TagAlone(lastOp'.attr[1], mv[lastOp'.dev].config_data[1])
                   => lastOp'.change = "DEV_CONFIG_RESTART"
             /\ lastOp'.attr = mv[lastOp'.dev].config_data
                   => lastOp'.change = "DEV_CONFIG_APPLIED"]_vars

\* a reload that changed the tag from 10 to 20 was classified as a restart
C8_Witness ==
    /\ lastOp.op = "reload"
    /\ lastOp.change = "DEV_CONFIG_RESTART"
    /\ lastOp.attr[1].vid = IntA(20)

\* the configuration that sets the parent eth0 and the tag v
TagConf(v) == Blob(Name("eth0"), IntA(v), NoAttr, NoAttr, NoAttr, NoAttr)

\* the device was given tag 10, then tag 20, then tag 20 again
TagSequence ==
    /\ Len(hist) = 3
    /\ hist[1].attr = TagConf(10)
    /\ hist[2].attr = TagConf(20)
    /\ hist[3].attr = TagConf(20)

\* C9: after every reload the persisted configuration is the bytes given to
\* that reload, so every reload is classified against the bytes of the
\* reload before it; tags 10, 20, 20 give applied, restart, applied.
C9_PersistedIsLastReload ==
    /\ hist # <<>> =>
          /\ mv["vlan1"].config_data = <<hist[Len(hist)].attr>>
          /\ hist[1].ret = "DEV_CONFIG_APPLIED"
    /\ \A k \in 2..Len(hist) :
          hist[k].ret = IF SchemaFields(hist[k].attr)
                             # SchemaFields(hist[k - 1].attr)
                        THEN "DEV_CONFIG_RESTART" ELSE "DEV_CONFIG_APPLIED"
    /\ TagSequence =>
          /\ hist[1].ret = "DEV_CONFIG_APPLIED"
          /\ hist[2].ret = "DEV_CONFIG_RESTART"
          /\ hist[3].ret = "DEV_CONFIG_APPLIED"

C9_Witness == TagSequence /\ hist[2].ret = "DEV_CONFIG_RESTART"

RECURSIVE Decimal(_)
\* the number a sequence of digits writes
Decimal(ds) ==
    IF ds = <<>> THEN 0
    ELSE 10 * Decimal(SubSeq(ds, 1, Len(ds) - 1)) + DigitVal(ds[Len(ds)])

AllDigits(ds) == ds # <<>> /\ \A k \in 1..Len(ds) : ds[k] \in Digits

\* the item is a string of the form <unsigned-int>:<unsigned-int> with the
\* colon at position c
FromTo(item, c) ==
    /\ item.t = "string" /\ item.ok
    /\ item.s[c] = ":"
    /\ AllDigits(SubSeq(item.s, 1, c - 1))
    /\ AllDigits(SubSeq(item.s, c + 1, Len(item.s)))

WellFormed(item) == \E c \in 1..Len(item.s) : FromTo(item, c)

\* the pair a well-formed item writes
PairOf(item) ==
    LET c == CHOOSE c \in 1..Len(item.s) : FromTo(item, c)
    IN  [from |-> Decimal(SubSeq(item.s, 1, c - 1)),
         to |-> Decimal(SubSeq(item.s, c + 1, Len(item.s)))]

\* the parser has returned from a list of at most N well-formed items
ParsedWellFormed ==
    /\ pst.done
    /\ Len(pst.list) <= N
    /\ \A k \in 1..Len(pst.list) : WellFormed(pst.list[k])

\* C10: for a list of at most N items that are all strings of the form
\* <unsigned-int>:<unsigned-int>, the parser returns the length of the list
\* and entry k of the table holds the pair of item k, in input order.
C10_WellFormedListDecoded ==
    ParsedWellFormed =>
        /\ pst.ret = Len(pst.list)
        /\ \A k \in 1..Len(pst.list) : pst.tab[k] = PairOf(pst.list[k])

\* a full list of distinct well-formed items, one with a leading zero
C10_Witness ==
    /\ ParsedWellFormed
    /\ Len(pst.list) = N
    /\ pst.list[1] = M703
    /\ pst.list[2] = M12
    /\ pst.ret = N

\* the parser has returned from a list one of whose items is no string of
\* the form <unsigned-int>:<unsigned-int>
ParsedMalformed ==
    /\ pst.done
    /\ \E k \in 1..Len(pst.list) : ~WellFormed(pst.list[k])

\* C11: for a list that holds, at any position, an item that is no string or
\* a string not of the form <unsigned-int>:<unsigned-int>, the parser returns
\* 0 (the value vlandev_apply_settings stores as the length of the table).
C11_MalformedListYieldsZero == ParsedMalformed => pst.ret = 0

\* C12: for a list of more than N items the parser returns 0, and at no
\* point of any parse is a table entry at index N or above written.
C12_OverlongListYieldsZero ==
    /\ pst.wrote \subseteq 0..(N - 1)
    /\ (pst.done /\ Len(pst.list) > N) => pst.ret = 0

\* a list of N + 1 well-formed items was rejected after N entries were
\* written
C12_Witness ==
    /\ pst.done
    /\ Len(pst.list) = N + 1
    /\ \A k \in 1..Len(pst.list) : WellFormed(pst.list[k])
    /\ pst.wrote = 0..(N - 1)
    /\ pst.ret = 0

\* C13: vlandev_free unregisters the device from its parent before it frees
\* the persisted configuration and the device, also when no parent was
\* bound; a freed device is listed as user of no parent and holds no claim,
\* and every binding a parent event is delivered to belongs to a live device.
C13_FreeUnregistersFirst ==
    /\ [](/\ lastOp.op = "free" =>
                CallNames(lastOp) =
                    <<"device_remove_user", "free_config_data", "free_mvdev">>
          /\ \A d \in Devs : ~alive[d] =>
                /\ mv[d] = ZeroDevice
                /\ \A p \in Parents : d \notin Users(p) /\ holder[p] # d)
    /\ [][lastOp'.op \in Events =>
             \A d \in Users(lastOp'.dev) : alive[d]]_vars

\* a device bound to a parent was freed
C13_Witness ==
    /\ lastOp.op = "free"
    /\ lastOp.change = "bound"
    /\ ~alive[lastOp.dev]

\* the present flag of d after the event ev of a parent that lists d
PresentAfter(d, ev) ==
    CASE ev = "DEV_EVENT_ADD" -> TRUE
      [] ev = "DEV_EVENT_REMOVE" -> FALSE
      [] OTHER -> mv[d].present

\* C14: an ADD event of the parent sets the present flag of the devices
\* bound to it, a REMOVE event clears it and any other event leaves it as it
\* is; no event changes whether a device is Up, its claim, its link, its
\* vlandev_config, its binding or its persisted configuration.
C14_EventsOnlySetPresent ==
    [][lastOp'.op \in Events =>
         /\ \A d \in Devs :
               mv'[d] = [mv[d] EXCEPT !.present =
                            IF d \in Users(lastOp'.dev)
                            THEN PresentAfter(d, lastOp'.op) ELSE @]
         /\ active' = active /\ holder' = holder /\ link' = link
         /\ alive' = alive]_vars

\* the parent of a device that is Up and present has raised an event that is
\* neither ADD nor REMOVE
C14_Witness ==
    /\ lastOp.op = "DEV_EVENT_LINK_DOWN"
    /\ active["vlan1"]
    /\ mv["vlan1"].parent = lastOp.dev
    /\ mv["vlan1"].present
    /\ mv["vlan1"].claimed

\* the parent the configuration a names: NULL when it declares no name
Named(a) ==
    IF blobmsg_parse(vlandev_attrs, a).ifname = NoAttr THEN NoDev
    ELSE device_get(blobmsg_parse(vlandev_attrs, a).ifname.s)

\* C15: after a reload of a device that had a persisted configuration, the
\* device is listed as user of the parent its new configuration names and of
\* no other parent (of none when it names none), whether the reload returned
\* DEV_CONFIG_APPLIED or DEV_CONFIG_RESTART.
C15_ReloadRebindsToNamedParent ==
    lastOp.op = "reload" =>
        /\ mv[lastOp.dev].parent = Named(lastOp.attr[1])
        /\ \A p \in Parents :
              lastOp.dev \in Users(p) <=> p = Named(lastOp.attr[1])
        /\ CallNames(lastOp) = <<"device_add_user">>

\* a device that is Up on eth0 was reloaded with a configuration that names
\* no parent
C15_Witness ==
    /\ lastOp.op = "reload"
    /\ lastOp.attr[1].ifname = NoAttr
    /\ active["vlan1"]
    /\ link["vlan1"][1].base = "eth0"
    /\ mv["vlan1"].parent = NoDev

\* the first n entries of two tables are the same
SameUpTo(tab1, tab2, n) == \A k \in 1..n : tab1[k] = tab2[k]

\* the vlandev_config c is what the configuration a alone gives a device of
\* type t: the protocol of the type, the tag of a or 1, and for each
\* direction the length and the entries up to the length that the list of a
\* parses to
ConfigAgrees(c, t, a) ==
    LET tb == blobmsg_parse(vlandev_attrs, a)
        ing == vlandev_qos_mappings_list_apply(ZeroTab, N,
                                               tb.ingress_qos_mapping.l)
        egr == vlandev_qos_mappings_list_apply(ZeroTab, N,
                                               tb.egress_qos_mapping.l)
    IN  /\ c.proto = IF t = "8021q" THEN "VLAN_PROTO_8021Q"
                     ELSE "VLAN_PROTO_8021AD"
        /\ c.vid = IF tb.vid = NoAttr THEN 1 ELSE tb.vid.n % U16
        /\ c.ingress_qos_mappings_len = ing.ret
        /\ SameUpTo(c.ingress_qos_mappings, ing.tab, ing.ret)
        /\ c.egress_qos_mappings_len = egr.ret
        /\ SameUpTo(c.egress_qos_mappings, egr.tab, egr.ret)

\* the last handler was a set_up that succeeded
Activated == lastOp.op = "set_up" /\ lastOp.ret = 0

\* C16: the vlandev_config a device holds is at every moment the one its
\* most recent reload produced, whatever that reload returned, and the
\* persisted configuration is the bytes of that reload; a set_up hands
\* system_vlandev_add that vlandev_config and the parent bound then.
C16_ActivateUsesLastReload ==
    /\ hist # <<>> =>
          /\ ConfigAgrees(mv["vlan1"].config, mv["vlan1"].type,
                          hist[Len(hist)].attr)
          /\ mv["vlan1"].config_data = <<hist[Len(hist)].attr>>
    /\ Activated =>
          /\ link["vlan1"][1].cfg = mv["vlan1"].config
          /\ link["vlan1"][1].base = mv["vlan1"].parent
          /\ link["vlan1"][1].base = Named(hist[Len(hist)].attr)

\* a device was activated after a reload that changed its tag to 20 and its
\* ingress list, and returned DEV_CONFIG_RESTART
C16_Witness ==
    /\ Activated
    /\ Len(hist) > 1
    /\ hist[Len(hist)].ret = "DEV_CONFIG_RESTART"
    /\ link["vlan1"][1].cfg.vid = 20
    /\ link["vlan1"][1].cfg.ingress_qos_mappings_len = 1

\* the mapping list l fails to parse
ListFails(l) ==
    l # NoAttr /\ l.l # <<>>
      /\ vlandev_qos_mappings_list_apply(ZeroTab, N, l.l).ret = 0

\* the ingress table and length of c are those of alt
SameIngress(c, alt) ==
    /\ c.ingress_qos_mappings_len = alt.ingress_qos_mappings_len
    /\ c.ingress_qos_mappings = alt.ingress_qos_mappings

\* the egress table and length of c are those of alt
SameEgress(c, alt) ==
    /\ c.egress_qos_mappings_len = alt.egress_qos_mappings_len
    /\ c.egress_qos_mappings = alt.egress_qos_mappings

\* C17: when the list of one direction fails to parse in a reload, the
\* length of that direction's table is 0 and the table and length of the
\* other direction are what the same reload gives when the failing list is
\* left out of the configuration.
C17_DirectionsIndependent ==
    [][lastOp'.op = "reload" =>
         /\ ListFails(lastOp'.attr[1].ingress_qos_mapping) =>
               /\ mv'["vlan1"].config.ingress_qos_mappings_len = 0
               /\ SameEgress(mv'["vlan1"].config,
                     vlandev_reload(World, "vlan1",
                         [lastOp'.attr[1] EXCEPT
                             !.ingress_qos_mapping = NoAttr]
                     ).w.mv["vlan1"].config)
         /\ ListFails(lastOp'.attr[1].egress_qos_mapping) =>
               /\ mv'["vlan1"].config.egress_qos_mappings_len = 0
               /\ SameIngress(mv'["vlan1"].config,
                     vlandev_reload(World, "vlan1",
                         [lastOp'.attr[1] EXCEPT
                             !.egress_qos_mapping = NoAttr]
                     ).w.mv["vlan1"].config)]_vars

\* a reload whose ingress list has a malformed item and whose egress list
\* is well-formed
C17_Witness ==
    /\ lastOp.op = "reload"
    /\ lastOp.attr[1].ingress_qos_mapping = ArrA(<<M12, MBad>>)
    /\ lastOp.attr[1].egress_qos_mapping = ArrA(<<M21, M703>>)
    /\ mv["vlan1"].config.ingress_qos_mappings_len = 0
    /\ mv["vlan1"].config.egress_qos_mappings_len = 2

\* the protocol of the device type t
ProtoOf(t) ==
    IF t = "8021q" THEN "VLAN_PROTO_8021Q" ELSE "VLAN_PROTO_8021AD"

\* C18: the protocol of a device's vlandev_config is VLAN_PROTO_8021Q when
\* the 8021q device type created the device and VLAN_PROTO_8021AD otherwise,
\* after the creation and after every reload, whatever the configuration
\* holds; no handler changes the type or the protocol of a device.
C18_ProtoFromDeviceType ==
    /\ [](\A d \in Devs : alive[d] =>
             mv[d].config.proto = ProtoOf(mv[d].type))
    /\ [][/\ lastOp'.op = "create" =>
                \A d \in Devs, t \in DevTypes :
                    Create(d, t, lastOp'.attr[1]) =>
                        mv'[d].type = t /\ mv'[d].config.proto = ProtoOf(t)
          /\ \A d \in Devs : (alive[d] /\ alive'[d]) =>
                /\ mv'[d].type = mv[d].type
                /\ mv'[d].config.proto = mv[d].config.proto]_vars

\* a device of the 8021ad type was reloaded with a configuration that made
\* it restart
C18_Witness ==
    /\ lastOp.op = "reload"
    /\ lastOp.change = "DEV_CONFIG_RESTART"
    /\ mv["vlan1"].type = "8021ad"
    /\ mv["vlan1"].config.proto = "VLAN_PROTO_8021AD"

\* two vlandev_configs with the same protocol, tag, table lengths and table
\* entries up to the lengths
SameConfig(c1, c2) ==
    /\ c1.proto = c2.proto
    /\ c1.vid = c2.vid
    /\ c1.ingress_qos_mappings_len = c2.ingress_qos_mappings_len
    /\ SameUpTo(c1.ingress_qos_mappings, c2.ingress_qos_mappings,
                c1.ingress_qos_mappings_len)
    /\ c1.egress_qos_mappings_len = c2.egress_qos_mappings_len
    /\ SameUpTo(c1.egress_qos_mappings, c2.egress_qos_mappings,
                c1.egress_qos_mappings_len)

\* the two devices are of the same type and were last given the same bytes
SameTypeAndBytes ==
    /\ alive["vlan1"] /\ alive["vlan2"]
    /\ mv["vlan1"].type = mv["vlan2"].type
    /\ mv["vlan1"].config_data = mv["vlan2"].config_data

\* C19: two devices of the same type that were last reloaded with the same
\* bytes hold the same vlandev_config (protocol, tag, and for each direction
\* the length and the entries up to it) whatever they were given before; a
\* configuration without tag gives tag 1 and one without mapping list gives
\* length 0, also after a configuration that had them.
C19_ConfigFromBytesAndType ==
    /\ SameTypeAndBytes => SameConfig(mv["vlan1"].config, mv["vlan2"].config)
    /\ \A d \in Devs : alive[d] =>
          /\ ConfigAgrees(mv[d].config, mv[d].type, mv[d].config_data[1])
          /\ mv[d].config_data[1].vid = NoAttr => mv[d].config.vid = 1
          /\ mv[d].config_data[1].ingress_qos_mapping = NoAttr =>
                mv[d].config.ingress_qos_mappings_len = 0
          /\ mv[d].config_data[1].egress_qos_mapping = NoAttr =>
                mv[d].config.egress_qos_mappings_len = 0

\* two devices of one type hold the same configuration without tag and
\* without mapping list, and only one of them was given a mapping list
\* before (its table still holds the entry, beyond the length)
C19_Witness ==
    /\ SameTypeAndBytes
    /\ mv["vlan1"].config_data[1].vid = NoAttr
    /\ mv["vlan1"].config_data[1].ingress_qos_mapping = NoAttr
    /\ mv["vlan1"].config.ingress_qos_mappings[1] # ZeroEntry
    /\ mv["vlan2"].config.ingress_qos_mappings[1] = ZeroEntry

\* C20: vlandev_dump_info reads the name of a parent that is there: every
\* device that exists, from its creation to its destruction, is bound to a
\* parent, also after a reload with a configuration that names none.
C20_DumpInfoReadsBoundParent ==
    /\ \A d \in Devs : alive[d] => mv[d].parent # NoDev
    /\ lastOp.op = "dump_info" => lastOp.change \in Parents

====
